---- MODULE Spec2Model ----
(***************************************************************************)
(* A model of src/my_player.py: the Divercite agent MyPlayer.              *)
(*                                                                         *)
(*   agent      the MyPlayer object: its id, time_used, total_time_budget  *)
(*   call       the last method call made on the agent: its arguments,     *)
(*              its result and, for a search, the log of what it did       *)
(*   durations  the durations measured around the searches so far          *)
(*   depths     the depths searched so far                                 *)
(*                                                                         *)
(* The game engine (GameStateDivercite) is outside the file.  A game state *)
(* is modelled as an immutable value: its scores, its players, its board   *)
(* and, in kids, the successor state of each of its legal actions, so that *)
(* apply_action returns a new value and never changes its argument.        *)
(***************************************************************************)
EXTENDS Integers, Sequences, FiniteSets, TLC

VARIABLES agent, call, durations, depths

vars == <<agent, call, durations, depths>>

(***************************************************************************)
(* Bounds of the model.                                                    *)
(***************************************************************************)
\* the board of an evaluated state is BoardDim x BoardDim
BoardDim == 2
\* at most MaxPieces pieces on the board of an evaluated state
MaxPieces == 2
\* each player's score is in 0..MaxScore
MaxScore == 3
\* a searched game tree has at most MaxLeaves leaves
MaxLeaves == 3
\* a state has at most MaxBranch legal actions
MaxBranch == 2
\* compute_action is called at most MaxCalls times
MaxCalls == 3

(***************************************************************************)
(* Python values.                                                          *)
(***************************************************************************)
\* None, as an action: the legal actions are numbered from 1
None == 0

\* A float is a finite integer or one of the two infinities of math.inf.
Fin(n) == [inf |-> 0, n |-> n]
PosInf == [inf |-> 1, n |-> 0]
NegInf == [inf |-> -1, n |-> 0]

\* a < b, a <= b, a > b, a >= b on floats
Lt(a, b) == \/ a.inf < b.inf
            \/ a.inf = 0 /\ b.inf = 0 /\ a.n < b.n
Le(a, b) == Lt(a, b) \/ a = b
Gt(a, b) == Lt(b, a)
Ge(a, b) == Le(b, a)

(***************************************************************************)
(* The game engine's interface, as the agent uses it.                      *)
(***************************************************************************)
PlayerIds == {1, 2}

\* state.is_done()
is_done(state) == state.done

\* state.generate_possible_light_actions(): the legal actions, in the
\* generator's order
generate_possible_light_actions(state) == [a \in 1..Len(state.kids) |-> a]

\* state.apply_action(action): a new state
apply_action(state, action) == state.kids[action]

\* state.get_rep().get_dimensions()
get_dimensions(state) == state.dims

\* state.in_board(pos)
in_board(state, pos) == pos \in state.board

\* state.get_rep().get_env().get(pos) is truthy: a piece stands on pos
has_piece(state, pos) == pos \in DOMAIN state.env

\* state.get_rep().get_env()[pos].get_owner_id()
get_owner_id(state, pos) == state.env[pos].owner

\* state.check_divercite(pos)
check_divercite(state, pos) == pos \in state.divercite

(***************************************************************************)
(* MyPlayer.                                                               *)
(***************************************************************************)
\* self.get_id()
get_id(self) == self.id

\* A slip: the first player listed is taken for the opponent.
get_opponent_id_first_listed(self, game_state) == game_state.players[1]

\* The first id of state.players that is not the agent's; the loop falls
\* off its end, and the method returns None, when there is none.
RECURSIVE get_opponent_id_from(_, _, _)
get_opponent_id_from(self, game_state, k) ==
    IF k > Len(game_state.players) THEN None
    ELSE IF game_state.players[k] # get_id(self) THEN game_state.players[k]
    ELSE get_opponent_id_from(self, game_state, k + 1)

get_opponent_id(self, game_state) == get_opponent_id_from(self, game_state, 1)

\* A slip: >= for >, which moves the boundaries 600 and 300 up a tier.
get_dynamic_depth_inclusive(self, remaining_time) ==
    IF remaining_time >= 600 THEN 3
    ELSE IF remaining_time >= 300 THEN 2
    ELSE 1

get_dynamic_depth(self, remaining_time) ==
    IF remaining_time > 600 THEN 3
    ELSE IF remaining_time > 300 THEN 2
    ELSE 1

\* The two nested loops of count_divercite_potential, from cell (i, j) on,
\* rows first; cells are numbered from 0 as range() does.
RECURSIVE count_from(_, _, _, _, _)
count_from(state, player_id, i, j, count) ==
    IF i >= get_dimensions(state)[1] THEN count
    ELSE IF j >= get_dimensions(state)[2]
         THEN count_from(state, player_id, i + 1, 0, count)
    ELSE LET pos == <<i, j>>
             hit == /\ in_board(state, pos)
                    /\ has_piece(state, pos)
                    /\ get_owner_id(state, pos) = player_id
                    /\ check_divercite(state, pos)
         IN  count_from(state, player_id, i, j + 1,
                        IF hit THEN count + 1 ELSE count)

count_divercite_potential(self, state, player_id) ==
    count_from(state, player_id, 0, 0, 0)

evaluate_state(self, state) ==
    LET player_score == state.scores[get_id(self)]
        opponent_score == state.scores[get_opponent_id(self, state)]
        divercite_bonus == 5
        score_diff == player_score - opponent_score
        divercite_potential ==
            count_divercite_potential(self, state, get_id(self))
            - count_divercite_potential(self, state, get_opponent_id(self, state))
    IN  score_diff + divercite_potential * divercite_bonus

(***************************************************************************)
(* minimax.  Besides (value, action) the model returns a log of the        *)
(* search: returns holds one record per call of minimax, written when the  *)
(* call returns; passes one record per recursive call, with the window     *)
(* passed to the child and the window the calling node received; updates   *)
(* one record per assignment to alpha (in a maximizing node) or to beta    *)
(* (in a minimizing node).                                                 *)
(***************************************************************************)
NoLog == [returns |-> <<>>, passes |-> <<>>, updates |-> <<>>]

Join(l1, l2) == [returns |-> l1.returns \o l2.returns,
                 passes  |-> l1.passes \o l2.passes,
                 updates |-> l1.updates \o l2.updates]

\* A slip: < for >, so that the running maximum never leaves -inf.
max_update_reversed(value, action, max_value, best_action, alpha) ==
    IF Lt(value, max_value)
    THEN [max_value |-> value, best_action |-> action, alpha |-> value,
          assigned |-> TRUE]
    ELSE [max_value |-> max_value, best_action |-> best_action, alpha |-> alpha,
          assigned |-> FALSE]

\* The body of the maximizing loop after the recursive call: the running
\* maximum, its action and alpha after `if value > max_value: ...`.
max_update(value, action, max_value, best_action, alpha) ==
    IF Gt(value, max_value)
    THEN [max_value |-> value, best_action |-> action, alpha |-> value,
          assigned |-> TRUE]
    ELSE [max_value |-> max_value, best_action |-> best_action, alpha |-> alpha,
          assigned |-> FALSE]

\* A slip: <= for >=, which stops the loop while the maximum is below beta.
max_break_reversed(max_value, beta) == Le(max_value, beta)

\* `if max_value >= beta: break`
max_break(max_value, beta) == Ge(max_value, beta)

\* The body of the minimizing loop after the recursive call.
min_update(value, action, min_value, best_action, beta) ==
    IF Lt(value, min_value)
    THEN [min_value |-> value, best_action |-> action, beta |-> value,
          assigned |-> TRUE]
    ELSE [min_value |-> min_value, best_action |-> best_action, beta |-> beta,
          assigned |-> FALSE]

\* `if min_value <= alpha: break`
min_break(min_value, alpha) == Le(min_value, alpha)

\* `depth == 0 or state.is_done()`
cutoff(state, depth) == depth = 0 \/ is_done(state)

RECURSIVE minimax(_, _, _, _, _, _)
RECURSIVE max_loop(_, _, _, _, _, _, _, _, _, _, _)
RECURSIVE min_loop(_, _, _, _, _, _, _, _, _, _, _)

\* The maximizing loop from the k-th legal action on.  alpha0 is the alpha
\* the node was called with, alpha the local variable as it stands.
max_loop(self, state, depth, alpha0, beta, actions, k, alpha, max_value, best_action, log) ==
    IF k > Len(actions)
    THEN [value |-> max_value, action |-> best_action, log |-> log]
    ELSE LET action == actions[k]
             new_state == apply_action(state, action)
             sub == minimax(self, new_state, depth - 1, alpha, beta, FALSE)
             upd == max_update(sub.value, action, max_value, best_action, alpha)
             pass == [maximizing_player |-> TRUE, depth |-> depth,
                      alpha0 |-> alpha0, beta0 |-> beta,
                      alpha |-> alpha, beta |-> beta]
             assign == IF upd.assigned
                       THEN <<[maximizing_player |-> TRUE, received |-> alpha0,
                               old |-> alpha, new |-> upd.alpha]>>
                       ELSE <<>>
             log2 == Join(Join(log, [NoLog EXCEPT !.passes = <<pass>>]),
                          Join(sub.log, [NoLog EXCEPT !.updates = assign]))
         IN  IF max_break(upd.max_value, beta)
             THEN [value |-> upd.max_value, action |-> upd.best_action,
                   log |-> log2]
             ELSE max_loop(self, state, depth, alpha0, beta, actions, k + 1,
                           upd.alpha, upd.max_value, upd.best_action, log2)

\* The minimizing loop from the k-th legal action on.
min_loop(self, state, depth, alpha, beta0, actions, k, beta, min_value, best_action, log) ==
    IF k > Len(actions)
    THEN [value |-> min_value, action |-> best_action, log |-> log]
    ELSE LET action == actions[k]
             new_state == apply_action(state, action)
             sub == minimax(self, new_state, depth - 1, alpha, beta, TRUE)
             upd == min_update(sub.value, action, min_value, best_action, beta)
             pass == [maximizing_player |-> FALSE, depth |-> depth,
                      alpha0 |-> alpha, beta0 |-> beta0,
                      alpha |-> alpha, beta |-> beta]
             assign == IF upd.assigned
                       THEN <<[maximizing_player |-> FALSE, received |-> beta0,
                               old |-> beta, new |-> upd.beta]>>
                       ELSE <<>>
             log2 == Join(Join(log, [NoLog EXCEPT !.passes = <<pass>>]),
                          Join(sub.log, [NoLog EXCEPT !.updates = assign]))
         IN  IF min_break(upd.min_value, alpha)
             THEN [value |-> upd.min_value, action |-> upd.best_action,
                   log |-> log2]
             ELSE min_loop(self, state, depth, alpha, beta0, actions, k + 1,
                           upd.beta, upd.min_value, upd.best_action, log2)

minimax(self, state, depth, alpha, beta, maximizing_player) ==
    LET res == IF cutoff(state, depth)
               THEN [value |-> Fin(evaluate_state(self, state)),
                     action |-> None, log |-> NoLog]
               ELSE IF maximizing_player
               THEN max_loop(self, state, depth, alpha, beta,
                             generate_possible_light_actions(state), 1,
                             alpha, NegInf, None, NoLog)
               ELSE min_loop(self, state, depth, alpha, beta,
                             generate_possible_light_actions(state), 1,
                             beta, PosInf, None, NoLog)
        ret == [state |-> state, depth |-> depth, alpha |-> alpha,
                beta |-> beta, maximizing_player |-> maximizing_player,
                value |-> res.value, action |-> res.action]
    IN  [value |-> res.value, action |-> res.action,
         log |-> Join(res.log, [NoLog EXCEPT !.returns = <<ret>>])]

(***************************************************************************)
(* Exhaustive minimax, the reference the search is compared with: the same *)
(* cutoff rule and the same evaluation, every legal action explored, no    *)
(* window.  A maximum over no value is -inf and a minimum +inf, as the     *)
(* loops' initial values are.                                              *)
(***************************************************************************)
Greatest(S) == IF S = {} THEN NegInf ELSE CHOOSE v \in S : \A w \in S : Ge(v, w)
Least(S) == IF S = {} THEN PosInf ELSE CHOOSE v \in S : \A w \in S : Le(v, w)

RECURSIVE Exhaustive(_, _, _, _)
Exhaustive(self, state, depth, maximizing_player) ==
    IF depth = 0 \/ state.done THEN Fin(evaluate_state(self, state))
    ELSE LET values == {Exhaustive(self, state.kids[a], depth - 1,
                                   ~maximizing_player) : a \in 1..Len(state.kids)}
         IN  IF maximizing_player THEN Greatest(values) ELSE Least(values)

(***************************************************************************)
(* Game states.                                                            *)
(***************************************************************************)
\* The cells of a rectangular extent, numbered from 0.
Cells(dims) == {<<i, j>> : i \in 0..(dims[1] - 1), j \in 0..(dims[2] - 1)}

\* A game state with the given content and successors; board is the set of
\* its playable cells.
GameState(scores, players, dims, board, env, divercite, done, kids) ==
    [scores |-> scores, players |-> players, dims |-> dims, board |-> board,
     env |-> env, divercite |-> divercite, done |-> done, kids |-> kids]

NoPiece == [pos \in {} |-> [owner |-> None]]

\* The states of the searched trees have a board of one row of two cells.
Row == <<1, 2>>

\* Scores level, nothing on the board.
Even(done, kids) ==
    GameState([p \in PlayerIds |-> 0], <<1, 2>>, Row, Cells(Row), NoPiece, {},
              done, kids)

\* Player 1 leads by 3 points, nothing on the board.
Lead(done, kids) ==
    GameState([p \in PlayerIds |-> IF p = 1 THEN 3 ELSE 0], <<1, 2>>, Row,
              Cells(Row), NoPiece, {}, done, kids)

\* Scores level, player 2 owns a piece that completes a Divercite.
Formation(done, kids) ==
    GameState([p \in PlayerIds |-> 0], <<1, 2>>, Row, Cells(Row),
              [pos \in {<<0, 0>>} |-> [owner |-> 2]], {<<0, 0>>}, done, kids)

\* The content of a state a tree ends in.
Contents == {"even", "lead", "formation"}

Content(c, done, kids) ==
    IF c = "even" THEN Even(done, kids)
    ELSE IF c = "lead" THEN Lead(done, kids)
    ELSE Formation(done, kids)

\* The deepest search get_dynamic_depth asks for.
MaxDepth == 3

\* The shape of a tree of successors: a leaf is <<>>, another node the
\* sequence of its children's shapes.  Shapes(h, n): the shapes of height at
\* most h with exactly n leaves; ShapeForests(h, n, b): the sequences of at
\* most b of them with n leaves in all.
RECURSIVE Shapes(_, _), ShapeForests(_, _, _)
Shapes(h, n) ==
    (IF n = 1 THEN {<<>>} ELSE {})
    \cup (IF h = 0 THEN {} ELSE ShapeForests(h - 1, n, MaxBranch))

ShapeForests(h, n, b) ==
    IF b = 0 THEN {}
    ELSE UNION {{<<t>> \o f : t \in Shapes(h, k),
                              f \in IF k = n THEN {<<>>}
                                    ELSE ShapeForests(h, n - k, b - 1)}
                : k \in 1..n}

RECURSIVE LeafCount(_), LeavesBefore(_, _)
LeafCount(shape) ==
    IF shape = <<>> THEN 1 ELSE LeavesBefore(shape, Len(shape) + 1)

\* the leaves of the first k - 1 children
LeavesBefore(shape, k) ==
    IF k = 1 THEN 0 ELSE LeavesBefore(shape, k - 1) + LeafCount(shape[k - 1])

\* The game state of the given shape whose leaves, from `first` on in
\* generator order, have the contents `leaf` gives them.  A state with
\* successors is a running state with level scores.
RECURSIVE Tree(_, _, _)
Tree(shape, leaf, first) ==
    IF shape = <<>>
    THEN Content(leaf[first].content, leaf[first].done, <<>>)
    ELSE Even(FALSE, [k \in 1..Len(shape) |->
                         Tree(shape[k], leaf, first + LeavesBefore(shape, k))])

\* The shapes a search of the given depth can tell apart: it never looks
\* further than `depth` plies below the root.
ShapesWithin(depth) == UNION {Shapes(depth, n) : n \in 1..MaxLeaves}

\* What a tree ends in: a finished state of any content, or a running state
\* with level scores and no successor given (a state with no legal action,
\* if the search reaches it with depth left).
LeafKinds == [content : Contents, done : {TRUE}]
             \cup {[content |-> "even", done |-> FALSE]}

(***************************************************************************)
(* The agent as constructed (__init__), with the id the framework gave it. *)
(***************************************************************************)
MyPlayer(id) == [id |-> id, time_used |-> 0, total_time_budget |-> 900]

(***************************************************************************)
(* SpecSearch: one root search, minimax(state, depth, -inf, +inf, True),   *)
(* of a depth and a game tree drawn by Init.                               *)
(***************************************************************************)
InitSearch ==
    /\ agent = MyPlayer(1)
    /\ durations = <<>>
    /\ depths = <<>>
    /\ \E depth \in 1..MaxDepth :
       \E shape \in ShapesWithin(depth) :
       \E leaf \in [1..LeafCount(shape) -> LeafKinds] :
           call = [op |-> "search", done |-> FALSE,
                   state |-> Tree(shape, leaf, 1), depth |-> depth]

RootSearch ==
    /\ call.op = "search"
    /\ ~call.done
    /\ LET r == minimax(agent, call.state, call.depth, NegInf, PosInf, TRUE)
       IN  call' = [op |-> "search", done |-> TRUE, state |-> call.state,
                    depth |-> call.depth, value |-> r.value,
                    action |-> r.action, log |-> r.log]
    /\ UNCHANGED <<agent, durations, depths>>

NextSearch == RootSearch

SpecSearch == InitSearch /\ [][NextSearch]_vars

(***************************************************************************)
(* compute_action.                                                         *)
(***************************************************************************)
Range(seq) == {seq[k] : k \in 1..Len(seq)}

\* A slip: the caller's remaining_time is used.
remaining_game_time_of_caller(self, remaining_time) == remaining_time

\* A slip: the time used is taken for the time remaining.
remaining_game_time_elapsed(self, remaining_time) == self.time_used

\* `remaining_game_time = self.total_time_budget - self.time_used`: the
\* caller's remaining_time is not read.
remaining_game_time(self, remaining_time) ==
    self.total_time_budget - self.time_used

\* A slip: the action is not validated.
is_possible_unchecked(action, current_state) == TRUE

\* `action in current_state.generate_possible_light_actions()`
is_possible(action, current_state) ==
    action \in Range(generate_possible_light_actions(current_state))

\* One call of compute_action: the agent after it and what the call did.
\* elapsed is time.time() - start_time, the difference of two readings of
\* the wall clock taken around the search.
compute_action(self, current_state, remaining_time, elapsed) ==
    LET depth == get_dynamic_depth(self, remaining_game_time(self, remaining_time))
        found == minimax(self, current_state, depth, NegInf, PosInf, TRUE)
        after == [self EXCEPT !.time_used = self.time_used + elapsed]
        valid == is_possible(found.action, current_state)
    IN  [self |-> after, depth |-> depth, searched |-> found.action,
         outcome |-> IF valid THEN "return" ELSE "raise",
         result |-> IF valid THEN found.action ELSE None]

(***************************************************************************)
(* Spec: a match.  The host calls compute_action again and again, each     *)
(* time with a state, a remaining_time and a measured duration of the      *)
(* search.                                                                 *)
(***************************************************************************)
\* The states the host asks a move for: a finished state; a running state
\* with no legal action; a state whose best action depends on the depth; a
\* state whose only line of play ends, two plies down, in a running state
\* with no legal action.
Finished == Lead(TRUE, <<>>)
Stuck == Even(FALSE, <<>>)
Deep == Even(FALSE, <<Formation(FALSE, <<Lead(FALSE, <<Formation(TRUE, <<>>)>>)>>),
                      Even(FALSE, <<Even(FALSE, <<Lead(TRUE, <<>>)>>)>>)>>)
DeadEnd == Even(FALSE, <<Even(FALSE, <<Stuck>>)>>)

MatchStates == {Finished, Stuck, Deep, DeadEnd}

\* The remaining_time arguments: none left, and the parameter's default.
RemainingTimes == {0, 1000000000}

\* The measured durations, in seconds.  time.time() is the wall clock: it
\* steps back when the system clock is set back, so that a difference of
\* two readings can be negative.
Durations == {-1, 0, 299, 300, 901}

Init ==
    /\ agent = MyPlayer(1)
    /\ call = [op |-> "none"]
    /\ durations = <<>>
    /\ depths = <<>>

ComputeAction ==
    /\ Len(durations) < MaxCalls
    /\ \E current_state \in MatchStates, remaining_time \in RemainingTimes,
          elapsed \in Durations :
         LET r == compute_action(agent, current_state, remaining_time, elapsed)
         IN  /\ agent' = r.self
             /\ call' = [op |-> "compute_action", before |-> agent,
                         state |-> current_state,
                         remaining_time |-> remaining_time,
                         elapsed |-> elapsed, depth |-> r.depth,
                         searched |-> r.searched, outcome |-> r.outcome,
                         result |-> r.result]
             /\ durations' = Append(durations, elapsed)
             /\ depths' = Append(depths, r.depth)

Next == ComputeAction

Spec == Init /\ [][Next]_vars

(***************************************************************************)
(* Claims about compute_action.                                            *)
(***************************************************************************)
Called == call.op = "compute_action"

\* C1: a move compute_action returns is a legal action of the state, and is
\* the move the search gave; when the search gives a move that is not a
\* legal action (None included), compute_action raises and returns no move.
C1_ReturnsLegalOrRaises ==
    Called =>
      LET legal == Range(generate_possible_light_actions(call.state))
      IN  /\ call.outcome \in {"return", "raise"}
          /\ call.outcome = "return"
                => call.result \in legal /\ call.result = call.searched
          /\ call.searched \notin legal
                => call.outcome = "raise" /\ call.result = None

\* compute_action raised for a finished state, where the search gives None.
C1_Witness ==
    /\ Called
    /\ call.state.done
    /\ call.searched = None
    /\ call.outcome = "raise"

RECURSIVE Sum(_)
Sum(seq) == IF seq = <<>> THEN 0 ELSE seq[1] + Sum(Tail(seq))

\* C3: time_used is the sum of the durations measured so far; a step
\* changes it only by adding the duration of one call, and never lowers it.
C3_TimeUsedAccumulates ==
    [][/\ agent.time_used = Sum(durations)
       /\ agent'.time_used = Sum(durations')
       /\ Len(durations') = Len(durations) + 1
       /\ agent'.time_used = agent.time_used + durations'[Len(durations')]
       /\ agent'.time_used >= agent.time_used]_vars

\* C3 without `never decreases`.
C3_TimeUsedIsSum ==
    [][/\ agent.time_used = Sum(durations)
       /\ agent'.time_used = Sum(durations')
       /\ Len(durations') = Len(durations) + 1
       /\ agent'.time_used = agent.time_used + durations'[Len(durations')]]_vars

\* C5: the call's depth is get_dynamic_depth(total_time_budget - time_used)
\* of the agent as it was, and the same call with any other remaining_time
\* searches at the same depth and ends the same way.
C5_RemainingTimeIgnored ==
    Called =>
      /\ call.depth = get_dynamic_depth(call.before,
                          call.before.total_time_budget - call.before.time_used)
      /\ \A remaining_time \in RemainingTimes :
           LET other == compute_action(call.before, call.state,
                                       remaining_time, call.elapsed)
           IN  /\ other.depth = call.depth
               /\ other.outcome = call.outcome
               /\ other.result = call.result
               /\ other.self = agent

\* A call told that no time remains searched at depth 3 and returned the
\* move only a search of depth 3 finds.
C5_Witness ==
    /\ Called
    /\ call.remaining_time = 0
    /\ call.depth = 3
    /\ call.state = Deep
    /\ call.outcome = "return"
    /\ call.result = 2

NonNegative(seq) == \A k \in 1..Len(seq) : seq[k] >= 0

\* C10: while the measured durations are non-negative the depth never
\* increases from one call to a later one; the first depth is 3 and every
\* depth is 1, 2 or 3, also once time_used exceeds total_time_budget.
C10_DepthNeverIncreases ==
    /\ \A k \in 1..Len(depths) : depths[k] \in {1, 2, 3}
    /\ Len(depths) >= 1 => depths[1] = 3
    /\ \A i, j \in 1..Len(depths) :
         (i < j /\ NonNegative(SubSeq(durations, 1, j - 1)))
            => depths[j] <= depths[i]

\* The budget was overrun, durations all non-negative, and the next call
\* still searched, at depth 1, after calls at depths 3 and 2.
C10_Witness ==
    /\ Len(depths) = 3
    /\ NonNegative(durations)
    /\ depths = <<3, 2, 1>>
    /\ call.before.time_used > call.before.total_time_budget

(***************************************************************************)
(* Claims about the search.                                                *)
(***************************************************************************)
\* The number of states within `depth` plies of `state` that exhaustive
\* minimax visits.
RECURSIVE Visits(_, _), VisitsBelow(_, _, _)
Visits(state, depth) ==
    IF depth = 0 \/ state.done THEN 1
    ELSE 1 + VisitsBelow(state, depth, Len(state.kids))

VisitsBelow(state, depth, k) ==
    IF k = 0 THEN 0
    ELSE VisitsBelow(state, depth, k - 1) + Visits(state.kids[k], depth - 1)

Searched == call.op = "search" /\ call.done

\* C2: the value of the root search minimax(state, d, -inf, +inf, True) is
\* the value of exhaustive minimax of the same state at the same depth:
\* pruning never changes the root value.
C2_RootValueExact ==
    Searched => call.value = Exhaustive(agent, call.state, call.depth, TRUE)

\* A search of depth 3 that pruned: it visited fewer states than exhaustive
\* minimax does, and returned a finite value.
C2_Witness ==
    /\ Searched
    /\ call.depth = MaxDepth
    /\ Len(call.log.returns) < Visits(call.state, call.depth)
    /\ call.value.inf = 0

\* The first legal action whose successor has the exhaustive value `value`
\* at depth - 1, None when there is none.
FirstBest(self, state, depth, value) ==
    LET best == {a \in 1..Len(state.kids) :
                   Exhaustive(self, state.kids[a], depth - 1, FALSE) = value}
    IN  IF best = {} THEN None ELSE CHOOSE a \in best : \A b \in best : a <= b

\* C7: a root search of a running state with a legal action returns the
\* first action, in generator order, whose successor has the root value.
C7_FirstBestMove ==
    (Searched /\ ~call.state.done /\ Len(call.state.kids) >= 1)
        => call.action = FirstBest(agent, call.state, call.depth, call.value)

\* C7 where some successor's value is above -inf.
C7_FirstBestMoveAboveNegInf ==
    (Searched /\ ~call.state.done /\ Len(call.state.kids) >= 1
       /\ call.value # NegInf)
        => call.action = FirstBest(agent, call.state, call.depth, call.value)

\* C8: no call of minimax on a maximizing node returns less than the
\* exhaustive value of its node at its depth.
C8_MaxNeverBelowExact ==
    Searched =>
      \A i \in 1..Len(call.log.returns) :
        LET r == call.log.returns[i]
        IN  r.maximizing_player
              => Ge(r.value, Exhaustive(agent, r.state, r.depth, TRUE))

\* C8 amended: a call on a maximizing node that returns less than the beta
\* it received (no beta cutoff) never returns less than the exhaustive value
\* of its node; one that returns beta or more never returns more than it.
C8_MaxBoundByCutoff ==
    Searched =>
      \A i \in 1..Len(call.log.returns) :
        LET r == call.log.returns[i]
            exact == Exhaustive(agent, r.state, r.depth, TRUE)
        IN  r.maximizing_player
              => /\ Lt(r.value, r.beta) => Ge(r.value, exact)
                 /\ Ge(r.value, r.beta) => Le(r.value, exact)

\* A maximizing node below the root returned at a beta cutoff with less
\* than its exhaustive value.
C8_Witness ==
    /\ Searched
    /\ \E i \in 1..Len(call.log.returns) :
         LET r == call.log.returns[i]
         IN  /\ r.maximizing_player
             /\ r.depth >= 1
             /\ ~r.state.done
             /\ Ge(r.value, r.beta)
             /\ Lt(r.value, Exhaustive(agent, r.state, r.depth, TRUE))

\* C9: every assignment to alpha in a maximizing node raises it, never
\* below the alpha the node received; every assignment to beta in a
\* minimizing node lowers it, never above the beta the node received; the
\* window passed to a child lies within the window its parent received.
C9_WindowsNarrow ==
    Searched =>
      /\ \A i \in 1..Len(call.log.updates) :
           LET u == call.log.updates[i]
           IN  IF u.maximizing_player
               THEN Ge(u.new, u.old) /\ Ge(u.new, u.received)
               ELSE Le(u.new, u.old) /\ Le(u.new, u.received)
      /\ \A i \in 1..Len(call.log.passes) :
           LET p == call.log.passes[i]
           IN  Ge(p.alpha, p.alpha0) /\ Le(p.beta, p.beta0)

(***************************************************************************)
(* SpecDepth: one call of get_dynamic_depth, on a remaining time drawn by  *)
(* Init, by an agent that has used any of a few amounts of time.           *)
(***************************************************************************)
DepthInputs == (-150)..1050

UsedTimes == {0, 300, 901}

InitDepth ==
    /\ \E used \in UsedTimes : agent = [MyPlayer(1) EXCEPT !.time_used = used]
    /\ durations = <<>>
    /\ depths = <<>>
    /\ \E remaining_time \in DepthInputs :
         call = [op |-> "get_dynamic_depth", done |-> FALSE, before |-> agent,
                 remaining_time |-> remaining_time]

GetDynamicDepth ==
    /\ call.op = "get_dynamic_depth"
    /\ ~call.done
    /\ call' = [call EXCEPT !.done = TRUE] @@
               [result |-> get_dynamic_depth(agent, call.remaining_time)]
    /\ UNCHANGED <<agent, durations, depths>>

NextDepth == GetDynamicDepth

SpecDepth == InitDepth /\ [][NextDepth]_vars

\* C4: get_dynamic_depth(r) is 3 for r > 600, 2 for 300 < r <= 600 and 1 for
\* r <= 300, zero and negative r included: one tier per threshold r is
\* strictly above; it is at least 1, is the same whatever time the agent
\* has used, and the call leaves the agent as it was.
C4_ThreeTiers ==
    (call.op = "get_dynamic_depth" /\ call.done) =>
      LET r == call.remaining_time
      IN  /\ call.result = 1 + (IF r > 300 THEN 1 ELSE 0)
                             + (IF r > 600 THEN 1 ELSE 0)
          /\ call.result >= 1
          /\ r = 601 => call.result = 3
          /\ r \in {600, 301} => call.result = 2
          /\ r \in {300, 0, -1} => call.result = 1
          /\ \A used \in UsedTimes :
               get_dynamic_depth([agent EXCEPT !.time_used = used], r)
                 = call.result
          /\ agent = call.before

\* The boundary 600 was asked for, and fell in the lower tier.
C4_Witness ==
    /\ call.op = "get_dynamic_depth"
    /\ call.done
    /\ call.remaining_time = 600
    /\ call.result = 2

(***************************************************************************)
(* SpecEval: one evaluation of a state drawn by Init, by evaluate_state    *)
(* and by minimax at a cutoff of a maximizing and of a minimizing node.    *)
(***************************************************************************)
\* The evaluated states have a board of BoardDim x BoardDim cells, all
\* playable but the last corner (the board of the game is not a full
\* rectangle).
Square == <<BoardDim, BoardDim>>

Playable == Cells(Square) \ {<<BoardDim - 1, BoardDim - 1>>}

\* The boards with at most MaxPieces pieces, each on a playable cell, owned
\* by a player, completing a Divercite or not.
Boards ==
    {[env |-> [pos \in occupied |-> [owner |-> owner[pos]]], divercite |-> d] :
       <<occupied, owner, d>> \in
         UNION {UNION {{<<o, w, dd>> : w \in [o -> PlayerIds]} : dd \in SUBSET o}
                : o \in {c \in SUBSET Playable : Cardinality(c) <= MaxPieces}}}

EvalStates ==
    {GameState(scores, <<1, 2>>, Square, Playable, b.env, b.divercite, FALSE, <<>>) :
       scores \in [PlayerIds -> 0..MaxScore],
       b \in Boards}

InitEval ==
    /\ \E id \in PlayerIds : agent = MyPlayer(id)
    /\ durations = <<>>
    /\ depths = <<>>
    /\ \E state \in EvalStates :
         call = [op |-> "evaluate_state", done |-> FALSE, state |-> state]

EvaluateState ==
    /\ call.op = "evaluate_state"
    /\ ~call.done
    /\ call' = [call EXCEPT !.done = TRUE] @@
               [result |-> evaluate_state(agent, call.state),
                at_max |-> minimax(agent, call.state, 0, NegInf, PosInf, TRUE).value,
                at_min |-> minimax(agent, call.state, 0, NegInf, PosInf, FALSE).value]
    /\ UNCHANGED <<agent, durations, depths>>

NextEval == EvaluateState

SpecEval == InitEval /\ [][NextEval]_vars

\* The other player of a two-player match.
Opponent(id) == CHOOSE p \in PlayerIds : p # id

\* The pieces of a player that complete a Divercite.
Potential(state, id) ==
    Cardinality({pos \in DOMAIN state.env :
                   state.env[pos].owner = id /\ pos \in state.divercite})

\* C6: evaluate_state(state) is (score[self] - score[opponent])
\* + 5 * (potential(self) - potential(opponent)), from the agent's side, at
\* a maximizing and at a minimizing cutoff alike; it is 0 when the scores
\* and the formation counts are level, and 3 when the agent leads by 3 and
\* nobody has a formation.
C6_EvaluationFormula ==
    (call.op = "evaluate_state" /\ call.done) =>
      LET me == agent.id
          other == Opponent(me)
          lead == call.state.scores[me] - call.state.scores[other]
          mine == Potential(call.state, me)
          theirs == Potential(call.state, other)
      IN  /\ call.result = lead + 5 * (mine - theirs)
          /\ call.at_max = Fin(call.result)
          /\ call.at_min = Fin(call.result)
          /\ (lead = 0 /\ mine = theirs) => call.result = 0
          /\ (lead = 3 /\ mine = 0 /\ theirs = 0) => call.result = 3

\* Scores level and one formation each: the counts cancel, for the player
\* listed second.
C6_Witness ==
    /\ call.op = "evaluate_state"
    /\ call.done
    /\ agent.id = 2
    /\ call.state.scores[1] = call.state.scores[2]
    /\ Potential(call.state, 1) = 1
    /\ Potential(call.state, 2) = 1
    /\ call.result = 0

====
